---------------------------- MODULE Spec2Model ----------------------------
(***************************************************************************)
(* A model of invoice_generator.py: the configuration store (config.json,  *)
(* read by load_config and written by save_config through the json         *)
(* module), the InvoiceGenerator session (its constructor, the invoice     *)
(* counter, the prompts of generate_invoice, create_pdf) and the top-level *)
(* loop of the script.                                                     *)
(*                                                                         *)
(* Text is modelled as it is in the program: a string is a sequence of     *)
(* one-character strings, so that formatting, JSON encoding and decoding,  *)
(* strip(), lower(), int() and float() are computed character by           *)
(* character.  The one character outside ASCII that the model uses is      *)
(* written "U+00E9".                                                       *)
(***************************************************************************)
EXTENDS Integers, Sequences, FiniteSets, TLC

VARIABLES
    disk,   \* the working directory: config.json and the PDF files
    argv,   \* per process: the parsed command-line arguments
    pc,     \* per process: the statement the process is at
    self,   \* per process: the InvoiceGenerator object
    loc,    \* per process: the local variables of generate_invoice
    hist,   \* per process: history of what the process read and called
    ghost,  \* history of the disk: its first contents, the last writer
    rt      \* the probe of the save_config / load_config round trip

vars == <<disk, argv, pc, self, loc, hist, ghost, rt>>

----------------------------------------------------------------------------
(* Bounds of the model.                                                    *)

\* Longest string drawn for the round trip of the configuration store.
MaxStrLen == 2
\* Invoice cycles one process runs.
MaxCycles == 2
\* Line items of one invoice.
MaxItems == 1
\* Consecutive direct calls of get_next_invoice_number.
MaxCalls == 3

----------------------------------------------------------------------------
(* Python values: None, str, int.                                          *)

None == [t |-> "none", s |-> <<>>, i |-> 0]
PyStr(s) == [t |-> "str", s |-> s, i |-> 0]
PyInt(n) == [t |-> "int", s |-> <<>>, i |-> n]

\* bool(v), as `or` tests it.
Truthy(v) ==
    CASE v.t = "none" -> FALSE
      [] v.t = "str" -> Len(v.s) > 0
      [] OTHER -> v.i # 0

\* a or b
Or(a, b) == IF Truthy(a) THEN a ELSE b

----------------------------------------------------------------------------
(* Characters and numbers as text.                                         *)

Digits == <<"0", "1", "2", "3", "4", "5", "6", "7", "8", "9">>
IsDigit(c) == \E d \in 1..10 : Digits[d] = c
DigitVal(c) == (CHOOSE d \in 1..10 : Digits[d] = c) - 1

RECURSIVE NatToStr(_)
NatToStr(n) ==
    IF n < 10 THEN <<Digits[n + 1]>>
    ELSE NatToStr(n \div 10) \o <<Digits[(n % 10) + 1]>>

\* str(n) of an int, which is also how json writes one.
IntToStr(n) == IF n < 0 THEN <<"-">> \o NatToStr(-n) ELSE NatToStr(n)

RECURSIVE Repeat(_, _)
Repeat(c, n) == IF n <= 0 THEN <<>> ELSE <<c>> \o Repeat(c, n - 1)

\* The field width of the format specification "04d".
PadWidth == 4

Format04dShort(n) ==
    LET s == NatToStr(IF n < 0 THEN -n ELSE n)
    IN  SubSeq(Repeat("0", PadWidth - Len(s)) \o s, 1, PadWidth)

\* f"{n:04d}": sign-aware zero padding to a minimum width, never cutting.
Format04d(n) ==
    LET sign == IF n < 0 THEN <<"-">> ELSE <<>>
        s == NatToStr(IF n < 0 THEN -n ELSE n)
    IN  sign \o Repeat("0", PadWidth - Len(sign) - Len(s)) \o s

Upper == <<"A", "D", "E", "N", "O", "S", "Y">>
LowerOf == <<"a", "d", "e", "n", "o", "s", "y">>

\* str.lower(), on the letters the model's inputs use.
LowerChar(c) ==
    IF \E k \in 1..Len(Upper) : Upper[k] = c
    THEN LowerOf[CHOOSE k \in 1..Len(Upper) : Upper[k] = c]
    ELSE c
Lower(s) == [k \in 1..Len(s) |-> LowerChar(s[k])]

Whitespace == {" ", "\n", "\t", "\r"}

RECURSIVE LStrip(_)
LStrip(s) ==
    IF Len(s) > 0 /\ s[1] \in Whitespace THEN LStrip(Tail(s)) ELSE s
RECURSIVE RStrip(_)
RStrip(s) ==
    IF Len(s) > 0 /\ s[Len(s)] \in Whitespace
    THEN RStrip(SubSeq(s, 1, Len(s) - 1))
    ELSE s
\* str.strip()
Strip(s) == RStrip(LStrip(s))

----------------------------------------------------------------------------
(* The json module, as save_config and load_config use it: json.dump with  *)
(* indent=4 (ensure_ascii left on) and json.load.  A dict is the sequence  *)
(* of its items in insertion order.                                        *)

Indent == 4

\* The characters outside ASCII, each with the four hex digits json writes.
NonAscii == {"U+00E9"}
Hex4(c) == <<"0", "0", "e", "9">>

\* One character of a JSON string, without escaping.
EscapeCharRaw(c) == <<c>>

\* One character of a JSON string, as json.dump writes it.
EscapeChar(c) ==
    CASE c = "\"" -> <<"\\", "\"">>
      [] c = "\\" -> <<"\\", "\\">>
      [] c = "\n" -> <<"\\", "n">>
      [] c = "\r" -> <<"\\", "r">>
      [] c = "\t" -> <<"\\", "t">>
      [] c \in NonAscii -> <<"\\", "u">> \o Hex4(c)
      [] OTHER -> <<c>>

RECURSIVE EscapeAll(_)
EscapeAll(s) ==
    IF Len(s) = 0 THEN <<>> ELSE EscapeChar(s[1]) \o EscapeAll(Tail(s))

JsonString(s) == <<"\"">> \o EscapeAll(s) \o <<"\"">>

JsonValue(v) ==
    CASE v.t = "str" -> JsonString(v.s)
      [] v.t = "int" -> IntToStr(v.i)
      [] OTHER -> <<"n", "u", "l", "l">>

RECURSIVE JsonItems(_, _)
JsonItems(d, k) ==
    IF k > Len(d) THEN <<>>
    ELSE (IF k > 1 THEN <<",">> ELSE <<>>)
         \o <<"\n">> \o Repeat(" ", Indent)
         \o JsonString(d[k].k) \o <<":", " ">> \o JsonValue(d[k].v)
         \o JsonItems(d, k + 1)

\* json.dump(d, file, indent=4): the text written.
JsonDump(d) ==
    IF Len(d) = 0 THEN <<"{", "}">>
    ELSE <<"{">> \o JsonItems(d, 1) \o <<"\n", "}">>

ParseFail == [ok |-> FALSE, val |-> None, next |-> 0]

RECURSIVE SkipWs(_, _)
SkipWs(t, i) ==
    IF i <= Len(t) /\ t[i] \in Whitespace THEN SkipWs(t, i + 1) ELSE i

\* The character an escape letter stands for.
Unescape(c) ==
    CASE c = "n" -> "\n"
      [] c = "r" -> "\r"
      [] c = "t" -> "\t"
      [] OTHER -> c

\* The body of a JSON string from position i (after the opening quote).
RECURSIVE ScanString(_, _, _)
ScanString(t, i, acc) ==
    IF i > Len(t) THEN [ok |-> FALSE, s |-> <<>>, next |-> 0]
    ELSE IF t[i] = "\"" THEN [ok |-> TRUE, s |-> acc, next |-> i + 1]
    ELSE IF t[i] = "\\" THEN
        IF i + 1 > Len(t) THEN [ok |-> FALSE, s |-> <<>>, next |-> 0]
        ELSE IF t[i + 1] \in {"\"", "\\", "/", "n", "r", "t"}
        THEN ScanString(t, i + 2, Append(acc, Unescape(t[i + 1])))
        ELSE IF /\ t[i + 1] = "u"
                /\ i + 5 <= Len(t)
                /\ \E c \in NonAscii : Hex4(c) = SubSeq(t, i + 2, i + 5)
        THEN ScanString(t, i + 6, Append(acc,
                 CHOOSE c \in NonAscii : Hex4(c) = SubSeq(t, i + 2, i + 5)))
        ELSE [ok |-> FALSE, s |-> <<>>, next |-> 0]
    ELSE IF t[i] \in {"\n", "\r", "\t"}
    THEN [ok |-> FALSE, s |-> <<>>, next |-> 0]
    ELSE ScanString(t, i + 1, Append(acc, t[i]))

RECURSIVE ScanDigits(_, _, _)
ScanDigits(t, i, acc) ==
    IF i <= Len(t) /\ IsDigit(t[i])
    THEN ScanDigits(t, i + 1, acc * 10 + DigitVal(t[i]))
    ELSE [val |-> acc, next |-> i]

\* A JSON value from position i: a string, an integer or null.
ScanValue(t, i) ==
    IF i > Len(t) THEN ParseFail
    ELSE IF t[i] = "\"" THEN
        LET r == ScanString(t, i + 1, <<>>)
        IN  IF r.ok THEN [ok |-> TRUE, val |-> PyStr(r.s), next |-> r.next]
            ELSE ParseFail
    ELSE IF t[i] = "-" \/ IsDigit(t[i]) THEN
        LET neg == t[i] = "-"
            j == IF neg THEN i + 1 ELSE i
            r == ScanDigits(t, j, 0)
        IN  IF r.next = j \/ (t[j] = "0" /\ r.next > j + 1) THEN ParseFail
            ELSE [ok |-> TRUE, next |-> r.next,
                  val |-> PyInt(IF neg THEN -r.val ELSE r.val)]
    ELSE IF i + 3 <= Len(t) /\ SubSeq(t, i, i + 3) = <<"n", "u", "l", "l">>
    THEN [ok |-> TRUE, val |-> None, next |-> i + 4]
    ELSE ParseFail

\* d[key] = v on a dict: a present key keeps its place.
DictSet(d, key, v) ==
    IF \E k \in 1..Len(d) : d[k].k = key
    THEN [k \in 1..Len(d) |-> IF d[k].k = key THEN [k |-> key, v |-> v] ELSE d[k]]
    ELSE Append(d, [k |-> key, v |-> v])

\* d.get(key, default)
DictGet(d, key, default) ==
    IF \E k \in 1..Len(d) : d[k].k = key
    THEN d[CHOOSE k \in 1..Len(d) : d[k].k = key].v
    ELSE default

DictKeys(d) == {d[k].k : k \in 1..Len(d)}

LoadFail == [ok |-> FALSE, dict |-> <<>>]

\* The items of a JSON object from position i (at a key's opening quote).
RECURSIVE ScanItems(_, _, _)
ScanItems(t, i, acc) ==
    IF i > Len(t) \/ t[i] # "\"" THEN LoadFail
    ELSE
      LET key == ScanString(t, i + 1, <<>>)
          colon == IF key.ok THEN SkipWs(t, key.next) ELSE 0
          val == IF key.ok /\ colon <= Len(t) /\ t[colon] = ":"
                 THEN ScanValue(t, SkipWs(t, colon + 1))
                 ELSE ParseFail
          after == IF val.ok THEN SkipWs(t, val.next) ELSE 0
      IN  IF ~val.ok \/ after > Len(t) THEN LoadFail
          ELSE IF t[after] = "}"
          THEN IF SkipWs(t, after + 1) > Len(t)
               THEN [ok |-> TRUE, dict |-> DictSet(acc, key.s, val.val)]
               ELSE LoadFail
          ELSE IF t[after] = ","
          THEN ScanItems(t, SkipWs(t, after + 1), DictSet(acc, key.s, val.val))
          ELSE LoadFail

\* json.load(file) of a file holding an object: the dict, or the failure
\* (json.JSONDecodeError) that the caller does not catch.
JsonLoad(t) ==
    LET i == SkipWs(t, 1)
    IN  IF i > Len(t) \/ t[i] # "{" THEN LoadFail
        ELSE LET j == SkipWs(t, i + 1)
             IN  IF j <= Len(t) /\ t[j] = "}"
                 THEN IF SkipWs(t, j + 1) > Len(t)
                      THEN [ok |-> TRUE, dict |-> <<>>]
                      ELSE LoadFail
                 ELSE ScanItems(t, j, <<>>)

----------------------------------------------------------------------------
(* The configuration store.                                                *)

NoFile == [exists |-> FALSE, text |-> <<>>]
FileOf(text) == [exists |-> TRUE, text |-> text]

\* load_config(): {} when config.json does not exist, else json.load.
load_config(d) ==
    IF d.config.exists THEN JsonLoad(d.config.text)
    ELSE [ok |-> TRUE, dict |-> <<>>]

\* save_config(config): config.json is opened for writing and json.dump
\* writes the whole text; the disk afterwards.
save_config(d, config) == [d EXCEPT !.config = FileOf(JsonDump(config))]


----------------------------------------------------------------------------
(* Python's int() and float() on a line of input.                          *)

NoNumber == [ok |-> FALSE, val |-> 0]

\* int(text): surrounding whitespace is dropped, then an optional sign and
\* one or more decimal digits; anything else raises ValueError.  (Digit
\* grouping with "_" is not modelled; no input of the model uses it.)
int(text) ==
    LET s == Strip(text)
        signed == Len(s) > 0 /\ s[1] \in {"+", "-"}
        j == IF signed THEN 2 ELSE 1
        r == ScanDigits(s, j, 0)
    IN  IF r.next = j \/ r.next <= Len(s) THEN NoNumber
        ELSE [ok |-> TRUE,
              val |-> IF signed /\ s[1] = "-" THEN -r.val ELSE r.val]

\* A float that is a decimal fraction num/den (den a power of ten), or nan.
Float(num, den) == [nan |-> FALSE, num |-> num, den |-> den]
NaN == [nan |-> TRUE, num |-> 0, den |-> 1]
NoFloat == [ok |-> FALSE, val |-> NaN]

RECURSIVE Pow10(_)
Pow10(n) == IF n <= 0 THEN 1 ELSE 10 * Pow10(n - 1)

RECURSIVE Reduce(_)
Reduce(x) ==
    IF ~x.nan /\ x.den > 1 /\ x.num % 10 = 0
    THEN Reduce(Float(x.num \div 10, x.den \div 10))
    ELSE x

\* float(text): surrounding whitespace is dropped, then an optional sign and
\* either the word nan in any case, or digits with an optional fraction;
\* anything else raises ValueError.  (Exponents and the words inf and
\* infinity are not modelled; no input of the model uses them.)
float(text) ==
    LET s == Strip(text)
        signed == Len(s) > 0 /\ s[1] \in {"+", "-"}
        j == IF signed THEN 2 ELSE 1
        neg == signed /\ s[1] = "-"
        ip == ScanDigits(s, j, 0)
        dot == ip.next <= Len(s) /\ s[ip.next] = "."
        fp == IF dot THEN ScanDigits(s, ip.next + 1, 0)
              ELSE [val |-> 0, next |-> ip.next]
        nint == ip.next - j
        nfrac == IF dot THEN fp.next - (ip.next + 1) ELSE 0
        num == ip.val * Pow10(nfrac) + fp.val
    IN  IF Lower(SubSeq(s, j, Len(s))) = <<"n", "a", "n">>
        THEN [ok |-> TRUE, val |-> NaN]
        ELSE IF nint + nfrac = 0 \/ fp.next <= Len(s) THEN NoFloat
        ELSE [ok |-> TRUE,
              val |-> Reduce(Float(IF neg THEN -num ELSE num, Pow10(nfrac)))]

\* qty * price and total + line_total.
Times(qty, x) == IF x.nan THEN NaN ELSE Reduce(Float(qty * x.num, x.den))
Plus(x, y) ==
    IF x.nan \/ y.nan THEN NaN
    ELSE Reduce(Float(x.num * y.den + y.num * x.den, x.den * y.den))

RECURSIVE Total(_)
Total(items) ==
    IF Len(items) = 0 THEN Float(0, 1)
    ELSE Plus(Times(items[1].qty, items[1].price), Total(Tail(items)))

----------------------------------------------------------------------------
(* The InvoiceGenerator object.                                            *)

KeyCompanyName == <<"c", "o", "m", "p", "a", "n", "y", "_", "n", "a", "m", "e">>
KeyCompanyAddress ==
    <<"c", "o", "m", "p", "a", "n", "y", "_", "a", "d", "d", "r", "e", "s", "s">>
KeyInvoicePrefix ==
    <<"i", "n", "v", "o", "i", "c", "e", "_", "p", "r", "e", "f", "i", "x">>
KeyLastInvoiceNumber ==
    <<"l", "a", "s", "t", "_", "i", "n", "v", "o", "i", "c", "e", "_",
      "n", "u", "m", "b", "e", "r">>

DefaultCompany ==
    <<"D", "e", "f", "a", "u", "l", "t", " ", "C", "o", "m", "p", "a", "n", "y">>
DefaultAddress ==
    <<"D", "e", "f", "a", "u", "l", "t", " ", "A", "d", "d", "r", "e", "s", "s">>
DefaultPrefix == <<"I", "N", "V">>

\* The persisted counter: last_invoice_number of config.json, 0 when the
\* file or the field is absent.
Persisted(d) ==
    LET r == load_config(d)
    IN  IF r.ok THEN DictGet(r.dict, KeyLastInvoiceNumber, PyInt(0)).i ELSE 0

\* f"{v}"
FStr(v) ==
    CASE v.t = "str" -> v.s
      [] v.t = "int" -> IntToStr(v.i)
      [] OTHER -> <<"N", "o", "n", "e">>

NoObject ==
    [company_name |-> None, company_address |-> None, invoice_prefix |-> None,
     config |-> <<>>, last_invoice_number |-> None]

NoArgs ==
    [company_name |-> None, company_address |-> None, invoice_prefix |-> None]

\* InvoiceGenerator(args.company_name, args.company_address,
\* args.invoice_prefix) once load_config returned config.
InvoiceGenerator_init(args, config) ==
    [company_name |->
        Or(args.company_name,
           DictGet(config, KeyCompanyName, PyStr(DefaultCompany))),
     company_address |->
        Or(args.company_address,
           DictGet(config, KeyCompanyAddress, PyStr(DefaultAddress))),
     invoice_prefix |->
        Or(args.invoice_prefix,
           DictGet(config, KeyInvoicePrefix, PyStr(DefaultPrefix))),
     config |-> config,
     last_invoice_number |-> DictGet(config, KeyLastInvoiceNumber, PyInt(0))]

NextCounterSkips(n) == n + 2

\* self.last_invoice_number += 1
NextCounter(n) == n + 1

ConfigToSaveMerged(obj) ==
    DictSet(DictSet(DictSet(DictSet(obj.config,
        KeyCompanyName, obj.company_name),
        KeyCompanyAddress, obj.company_address),
        KeyInvoicePrefix, obj.invoice_prefix),
        KeyLastInvoiceNumber, obj.last_invoice_number)

\* The dict get_next_invoice_number hands to save_config.
ConfigToSave(obj) ==
    <<[k |-> KeyCompanyName, v |-> obj.company_name],
      [k |-> KeyCompanyAddress, v |-> obj.company_address],
      [k |-> KeyInvoicePrefix, v |-> obj.invoice_prefix],
      [k |-> KeyLastInvoiceNumber, v |-> obj.last_invoice_number]>>

\* f"{self.invoice_prefix}{self.last_invoice_number:04d}"
FormatInvoiceNumber(obj) ==
    FStr(obj.invoice_prefix) \o Format04d(obj.last_invoice_number.i)

get_next_invoice_number_reloading(obj, d) ==
    LET after == [obj EXCEPT !.last_invoice_number =
                      PyInt(NextCounter(Persisted(d)))]
    IN  [self |-> after,
         disk |-> save_config(d, ConfigToSave(after)),
         ret |-> FormatInvoiceNumber(after)]

\* get_next_invoice_number(): the object and the disk afterwards, and the
\* value returned.
get_next_invoice_number(obj, d) ==
    LET after == [obj EXCEPT !.last_invoice_number =
                      PyInt(NextCounter(obj.last_invoice_number.i))]
    IN  [self |-> after,
         disk |-> save_config(d, ConfigToSave(after)),
         ret |-> FormatInvoiceNumber(after)]

PdfPrefix == <<"I", "n", "v", "o", "i", "c", "e", "_">>
PdfSuffix == <<".", "p", "d", "f">>

\* f"Invoice_{invoice_number}.pdf"
pdf_filename(invoice_number) == PdfPrefix \o invoice_number \o PdfSuffix

create_pdf_saving(d, obj, l) ==
    save_config(
        [d EXCEPT !.pdfs = {f \in @ : f.name # pdf_filename(l.invoice_number)}
             \cup {[name |-> pdf_filename(l.invoice_number),
                    company_name |-> FStr(obj.company_name)]}],
        ConfigToSave(obj))

\* create_pdf(...): the disk afterwards.  The canvas is saved under
\* pdf_filename, replacing a file of that name; of the page, the company
\* name of its header is kept.
create_pdf(d, obj, l) ==
    [d EXCEPT !.pdfs = {f \in @ : f.name # pdf_filename(l.invoice_number)}
         \cup {[name |-> pdf_filename(l.invoice_number),
                company_name |-> FStr(obj.company_name)]}]

Yes == <<"y", "e", "s">>
Done == <<"d", "o", "n", "e">>

ConfirmsOnY(answer) ==
    LET c == Lower(Strip(answer)) IN Len(c) > 0 /\ c[1] = "y"

\* confirm = input(...).strip().lower(); confirm == "yes"
Confirms(answer) == Lower(Strip(answer)) = Yes

ContinuesOnY(choice) ==
    LET c == Lower(Strip(choice)) IN Len(c) > 0 /\ c[1] = "y"

\* choice = input(...).strip().lower(); the loop goes on unless
\* choice != "yes".
Continues(choice) == ~(Lower(Strip(choice)) # Yes)

----------------------------------------------------------------------------
(* Processes: one run of the script each.                                  *)

Procs == {1, 2}

NoLocals ==
    [invoice_number |-> <<>>, customer_name |-> <<>>,
     customer_address |-> <<>>, invoice_date |-> <<>>, items |-> <<>>,
     desc |-> <<>>, qty |-> 0, total |-> Float(0, 1)]

NoHistory ==
    [calls |-> 0,          \* calls of get_next_invoice_number
     start |-> None,       \* last_invoice_number as __init__ set it
     returned |-> <<>>,    \* what the calls returned, in order
     cycles |-> 0,         \* calls of generate_invoice
     number |-> <<>>,      \* invoice_number of the cycle
     auto |-> FALSE,       \* the cycle's number came from the counter
     last |-> "none",      \* the statement executed last
     input |-> <<>>,       \* the line read last
     summaries |-> 0]      \* summaries printed

\* datetime.now().strftime("%Y-%m-%d")
Today == <<"2", "0", "2", "6", "-", "1", "1", "-", "0", "4">>

\* Lines typed at the prompts.  With two processes (ghost.typed = "few")
\* each prompt is given fewer lines, all of them taken from these.
NumberInputs == {<<>>, <<"X">>, <<"I", "N", "V", "0", "0", "0", "1">>}
CustomerInputs == {<<>>, <<"B", "o">>}
AddressInputs == {<<"S", "t">>}
DateInputs == {<<>>, <<"s", "o", "o", "n">>}
DescInputs == {<<"d", "o", "n", "e">>, <<"D", "o", "n", "e">>,
               <<"P", "e", "n">>}
QtyInputs == {<<" ", "2", " ">>, <<"x">>, <<"1", ".", "5">>, <<>>}
PriceInputs == {<<"5", ".", "5">>, <<"n", "a", "n">>, <<"x">>}
AnswerInputs == {<<"y", "e", "s">>, <<" ", "Y", "e", "s", " ">>,
                 <<"y">>, <<"n", "o">>, <<>>}

Few == ghost.typed = "few"
NumberTyped == IF Few THEN {<<>>} ELSE NumberInputs
CustomerTyped == IF Few THEN {<<>>} ELSE CustomerInputs
DateTyped == IF Few THEN {<<>>} ELSE DateInputs
DescTyped == IF Few THEN {<<"d", "o", "n", "e">>} ELSE DescInputs
ConfirmTyped == IF Few THEN {<<"y", "e", "s">>} ELSE AnswerInputs
AnswerTyped == IF Few THEN {<<"y", "e", "s">>, <<"n", "o">>} ELSE AnswerInputs

\* The script up to the first prompt: the arguments are parsed, the object
\* is constructed (load_config raises on a malformed file, which ends the
\* run) and the loop enters generate_invoice.
Main(p) ==
    /\ pc[p] = "start"
    /\ LET r == load_config(disk)
       IN  IF r.ok
           THEN LET obj == InvoiceGenerator_init(argv[p], r.dict)
                IN  /\ self' = [self EXCEPT ![p] = obj]
                    /\ pc' = [pc EXCEPT ![p] = "input_number"]
                    /\ hist' = [hist EXCEPT ![p].last = "init",
                                            ![p].start = obj.last_invoice_number,
                                            ![p].cycles = 1]
           ELSE /\ self' = self
                /\ pc' = [pc EXCEPT ![p] = "crashed"]
                /\ hist' = [hist EXCEPT ![p].last = "init"]
    /\ UNCHANGED <<disk, argv, loc, ghost, rt>>

\* invoice_number = input(...) or self.get_next_invoice_number()
InputInvoiceNumber(p) ==
    /\ pc[p] = "input_number"
    /\ \E text \in NumberTyped :
         IF Truthy(PyStr(text))
         THEN /\ loc' = [loc EXCEPT ![p] = [NoLocals EXCEPT !.invoice_number = text]]
              /\ hist' = [hist EXCEPT ![p].last = "input_number",
                                      ![p].input = text,
                                      ![p].number = text,
                                      ![p].auto = FALSE]
              /\ UNCHANGED <<disk, self, ghost>>
         ELSE LET r == get_next_invoice_number(self[p], disk)
              IN  /\ self' = [self EXCEPT ![p] = r.self]
                  /\ disk' = r.disk
                  /\ loc' = [loc EXCEPT ![p] =
                                [NoLocals EXCEPT !.invoice_number = r.ret]]
                  /\ hist' = [hist EXCEPT ![p].last = "input_number",
                                          ![p].input = text,
                                          ![p].number = r.ret,
                                          ![p].auto = TRUE,
                                          ![p].calls = @ + 1,
                                          ![p].returned = Append(@, r.ret)]
                  /\ ghost' = [ghost EXCEPT
                                 !.writer = p,
                                 !.lowered = @ \/ Persisted(r.disk) < Persisted(disk)]
    /\ pc' = [pc EXCEPT ![p] = "input_customer"]
    /\ UNCHANGED <<argv, rt>>

\* customer_name = input(...)
InputCustomerName(p) ==
    /\ pc[p] = "input_customer"
    /\ \E text \in CustomerTyped :
         /\ loc' = [loc EXCEPT ![p].customer_name = text]
         /\ hist' = [hist EXCEPT ![p].last = "input_customer", ![p].input = text]
    /\ pc' = [pc EXCEPT ![p] = "input_address"]
    /\ UNCHANGED <<disk, argv, self, ghost, rt>>

\* customer_address = input(...)
InputCustomerAddress(p) ==
    /\ pc[p] = "input_address"
    /\ \E text \in AddressInputs :
         /\ loc' = [loc EXCEPT ![p].customer_address = text]
         /\ hist' = [hist EXCEPT ![p].last = "input_address", ![p].input = text]
    /\ pc' = [pc EXCEPT ![p] = "input_date"]
    /\ UNCHANGED <<disk, argv, self, ghost, rt>>

\* invoice_date = input(...) or datetime.now().strftime("%Y-%m-%d")
InputInvoiceDate(p) ==
    /\ pc[p] = "input_date"
    /\ \E text \in DateTyped :
         /\ loc' = [loc EXCEPT ![p].invoice_date = Or(PyStr(text), PyStr(Today)).s]
         /\ hist' = [hist EXCEPT ![p].last = "input_date", ![p].input = text]
    /\ pc' = [pc EXCEPT ![p] = "input_desc"]
    /\ UNCHANGED <<disk, argv, self, ghost, rt>>

\* desc = input(...); on "done" the loop is left, the summary is printed
\* with the total and the confirmation is asked for.
InputDescription(p) ==
    /\ pc[p] = "input_desc"
    /\ \E text \in DescTyped :
         IF Lower(text) = Done
         THEN /\ loc' = [loc EXCEPT ![p].desc = text,
                                    ![p].total = Total(loc[p].items)]
              /\ hist' = [hist EXCEPT ![p].last = "input_desc",
                                      ![p].input = text,
                                      ![p].summaries = @ + 1]
              /\ pc' = [pc EXCEPT ![p] = "input_confirm"]
         ELSE /\ Len(loc[p].items) < MaxItems
              /\ loc' = [loc EXCEPT ![p].desc = text]
              /\ hist' = [hist EXCEPT ![p].last = "input_desc", ![p].input = text]
              /\ pc' = [pc EXCEPT ![p] = "input_qty"]
    /\ UNCHANGED <<disk, argv, self, ghost, rt>>

AfterBadNumberRetry(at) == at

\* Where the run is after int() or float() raised ValueError at prompt `at`:
\* nothing catches it.
AfterBadNumber(at) == "crashed"

\* qty = int(input(...))
InputQuantity(p) ==
    /\ pc[p] = "input_qty"
    /\ \E text \in QtyInputs :
         LET r == int(text)
         IN  /\ hist' = [hist EXCEPT ![p].last = "input_qty", ![p].input = text]
             /\ IF r.ok
                THEN /\ loc' = [loc EXCEPT ![p].qty = r.val]
                     /\ pc' = [pc EXCEPT ![p] = "input_price"]
                ELSE /\ loc' = loc
                     /\ pc' = [pc EXCEPT ![p] = AfterBadNumber("input_qty")]
    /\ UNCHANGED <<disk, argv, self, ghost, rt>>

\* price = float(input(...)); items.append(...)
InputPrice(p) ==
    /\ pc[p] = "input_price"
    /\ \E text \in PriceInputs :
         LET r == float(text)
         IN  /\ hist' = [hist EXCEPT ![p].last = "input_price", ![p].input = text]
             /\ IF r.ok
                THEN /\ loc' = [loc EXCEPT ![p].items =
                                   Append(@, [desc |-> loc[p].desc,
                                              qty |-> loc[p].qty,
                                              price |-> r.val])]
                     /\ pc' = [pc EXCEPT ![p] = "input_desc"]
                ELSE /\ loc' = loc
                     /\ pc' = [pc EXCEPT ![p] = AfterBadNumber("input_price")]
    /\ UNCHANGED <<disk, argv, self, ghost, rt>>

\* The confirmation: create_pdf on "yes", else the cancellation message;
\* generate_invoice returns (its locals are gone) and the loop asks whether
\* to go on.
InputConfirm(p) ==
    /\ pc[p] = "input_confirm"
    /\ \E text \in ConfirmTyped :
         /\ hist' = [hist EXCEPT ![p].last = "input_confirm", ![p].input = text]
         /\ IF Confirms(text)
            THEN disk' = create_pdf(disk, self[p], loc[p])
            ELSE disk' = disk
    /\ loc' = [loc EXCEPT ![p] = NoLocals]
    /\ pc' = [pc EXCEPT ![p] = "input_another"]
    /\ UNCHANGED <<argv, self, ghost, rt>>

\* choice = input(...): generate_invoice again, or the goodbye and the end.
InputAnother(p) ==
    /\ pc[p] = "input_another"
    /\ \E text \in AnswerTyped :
         /\ Continues(text) => hist[p].cycles < MaxCycles
         /\ hist' = [hist EXCEPT ![p].last = "input_another",
                                 ![p].input = text,
                                 ![p].cycles = IF Continues(text) THEN @ + 1 ELSE @]
         /\ pc' = [pc EXCEPT ![p] = IF Continues(text) THEN "input_number"
                                    ELSE "exited"]
    /\ UNCHANGED <<disk, argv, self, loc, ghost, rt>>

Run(p) ==
    \/ Main(p)
    \/ InputInvoiceNumber(p)
    \/ InputCustomerName(p)
    \/ InputCustomerAddress(p)
    \/ InputInvoiceDate(p)
    \/ InputDescription(p)
    \/ InputQuantity(p)
    \/ InputPrice(p)
    \/ InputConfirm(p)
    \/ InputAnother(p)

----------------------------------------------------------------------------
(* One run of the script.                                                  *)

Acme == <<"A", "c", "m", "e">>
Road == <<"R", "d">>

StoredConfig(name, prefix, n) ==
    <<[k |-> KeyCompanyName, v |-> PyStr(name)],
      [k |-> KeyCompanyAddress, v |-> PyStr(Road)],
      [k |-> KeyInvoicePrefix, v |-> PyStr(prefix)],
      [k |-> KeyLastInvoiceNumber, v |-> PyInt(n)]>>

Notes == <<"n", "o", "t", "e", "s">>

\* config.json before the run: absent, as an earlier run left it, edited by
\* hand (fields missing or empty, another field added), or not JSON.
InitialFiles ==
    {NoFile,
     FileOf(JsonDump(StoredConfig(Acme, <<"A">>, 7))),
     FileOf(JsonDump(<<[k |-> KeyCompanyName, v |-> PyStr(<<>>)],
                       [k |-> Notes, v |-> PyStr(<<"h", "i">>)]>>)),
     FileOf(JsonDump(Append(StoredConfig(Acme, <<"A">>, 7),
                            [k |-> Notes, v |-> PyStr(<<"h", "i">>)]))),
     FileOf(<<"{", "\"", "a", "\"", ":", "1", ",", "}">>)}

Override == <<"O", "v">>

InitialArgs ==
    {NoArgs,
     [company_name |-> PyStr(Override), company_address |-> None,
      invoice_prefix |-> PyStr(<<"B">>)],
     [company_name |-> PyStr(<<>>), company_address |-> PyStr(Override),
      invoice_prefix |-> None]}

NoProbe == [config |-> <<>>, loaded |-> LoadFail, saved |-> FALSE]

Init ==
    /\ \E f \in InitialFiles : disk = [config |-> f, pdfs |-> {}]
    /\ ghost = [disk0 |-> disk, writer |-> 0, lowered |-> FALSE, typed |-> "all"]
    /\ \E a \in InitialArgs : argv = [p \in Procs |-> IF p = 1 THEN a ELSE NoArgs]
    /\ pc = [p \in Procs |-> IF p = 1 THEN "start" ELSE "idle"]
    /\ self = [p \in Procs |-> NoObject]
    /\ loc = [p \in Procs |-> NoLocals]
    /\ hist = [p \in Procs |-> NoHistory]
    /\ rt = NoProbe

Next == Run(1)

Spec == Init /\ [][Next]_vars

----------------------------------------------------------------------------
(* The constructor alone, for every combination of arguments and stored    *)
(* fields.                                                                 *)

ArgValues == {None, PyStr(<<>>), PyStr(Override)}
StoredValues == {None, PyStr(<<>>), PyStr(Acme)}

\* A config.json holding the fields whose value is not None here.
StoredFields(name, address, prefix, n) ==
    (IF name.t = "none" THEN <<>> ELSE <<[k |-> KeyCompanyName, v |-> name]>>)
    \o (IF address.t = "none" THEN <<>>
        ELSE <<[k |-> KeyCompanyAddress, v |-> address]>>)
    \o (IF prefix.t = "none" THEN <<>>
        ELSE <<[k |-> KeyInvoicePrefix, v |-> prefix]>>)
    \o (IF n.t = "none" THEN <<>> ELSE <<[k |-> KeyLastInvoiceNumber, v |-> n]>>)

InitConstructor ==
    /\ \E f \in {NoFile} \cup
                {FileOf(JsonDump(StoredFields(name, PyStr(Road), prefix, n))) :
                    name \in StoredValues, prefix \in StoredValues,
                    n \in {None, PyInt(7)}} :
          disk = [config |-> f, pdfs |-> {}]
    /\ ghost = [disk0 |-> disk, writer |-> 0, lowered |-> FALSE, typed |-> "all"]
    /\ \E name \in ArgValues, address \in {None, PyStr(Override)},
          prefix \in ArgValues :
          argv = [p \in Procs |->
                    IF p = 1 THEN [company_name |-> name,
                                   company_address |-> address,
                                   invoice_prefix |-> prefix]
                    ELSE NoArgs]
    /\ pc = [p \in Procs |-> IF p = 1 THEN "start" ELSE "idle"]
    /\ self = [p \in Procs |-> NoObject]
    /\ loc = [p \in Procs |-> NoLocals]
    /\ hist = [p \in Procs |-> NoHistory]
    /\ rt = NoProbe

NextConstructor == Main(1)

SpecConstructor == InitConstructor /\ [][NextConstructor]_vars

----------------------------------------------------------------------------
(* get_next_invoice_number called several times in a row on one object.    *)

\* A call of get_next_invoice_number on the constructed object, outside
\* generate_invoice.
CallGetNext(p) ==
    /\ pc[p] = "input_number"
    /\ hist[p].calls < MaxCalls
    /\ LET r == get_next_invoice_number(self[p], disk)
       IN  /\ self' = [self EXCEPT ![p] = r.self]
           /\ disk' = r.disk
           /\ hist' = [hist EXCEPT ![p].last = "get_next_invoice_number",
                                   ![p].calls = @ + 1,
                                   ![p].returned = Append(@, r.ret)]
           /\ ghost' = [ghost EXCEPT
                          !.writer = p,
                          !.lowered = @ \/ Persisted(r.disk) < Persisted(disk)]
    /\ UNCHANGED <<argv, pc, loc, rt>>

StartCounters == {0, 6, 8, 98, 998, 9997, 9998, 12344, 99998}
Prefixes == {<<"A">>, <<>>, <<"I", "N", "V">>, <<"N", "o", "7">>}

InitNumber ==
    /\ \E f \in {NoFile} \cup
                {FileOf(JsonDump(StoredConfig(Acme, prefix, n))) :
                    prefix \in Prefixes, n \in StartCounters} :
          disk = [config |-> f, pdfs |-> {}]
    /\ ghost = [disk0 |-> disk, writer |-> 0, lowered |-> FALSE, typed |-> "all"]
    /\ argv = [p \in Procs |-> NoArgs]
    /\ pc = [p \in Procs |-> IF p = 1 THEN "start" ELSE "idle"]
    /\ self = [p \in Procs |-> NoObject]
    /\ loc = [p \in Procs |-> NoLocals]
    /\ hist = [p \in Procs |-> NoHistory]
    /\ rt = NoProbe

NextNumber == Main(1) \/ CallGetNext(1)

SpecNumber == InitNumber /\ [][NextNumber]_vars

----------------------------------------------------------------------------
(* save_config followed by load_config.                                    *)

Alphabet == {"a", "7", " ", "\"", "\\", "\n", "U+00E9"}
Strings == UNION {[1..n -> Alphabet] : n \in 0..MaxStrLen}

InitRoundTrip ==
    /\ disk = [config |-> NoFile, pdfs |-> {}]
    /\ ghost = [disk0 |-> disk, writer |-> 0, lowered |-> FALSE, typed |-> "all"]
    /\ argv = [p \in Procs |-> NoArgs]
    /\ pc = [p \in Procs |-> "idle"]
    /\ self = [p \in Procs |-> NoObject]
    /\ loc = [p \in Procs |-> NoLocals]
    /\ hist = [p \in Procs |-> NoHistory]
    /\ \E name \in Strings, address \in {<<>>, <<"\\", "\"", "n">>},
          prefix \in {<<"I", "N", "V">>, <<"\"">>},
          n \in {-12, 0, 7, 10000} :
          rt = [config |-> <<[k |-> KeyCompanyName, v |-> PyStr(name)],
                             [k |-> KeyCompanyAddress, v |-> PyStr(address)],
                             [k |-> KeyInvoicePrefix, v |-> PyStr(prefix)],
                             [k |-> KeyLastInvoiceNumber, v |-> PyInt(n)]>>,
                loaded |-> LoadFail, saved |-> FALSE]

\* save_config(config), then load_config().
SaveThenLoad ==
    /\ ~rt.saved
    /\ disk' = save_config(disk, rt.config)
    /\ rt' = [rt EXCEPT !.loaded = load_config(disk'), !.saved = TRUE]
    /\ UNCHANGED <<argv, pc, self, loc, hist, ghost>>

NextRoundTrip == SaveThenLoad

SpecRoundTrip == InitRoundTrip /\ [][NextRoundTrip]_vars

----------------------------------------------------------------------------
(* Two runs of the script at once, in one working directory.  A process's  *)
(* object and locals are its own; config.json is shared, and each          *)
(* save_config replaces it whole.  The invoices of these runs have no      *)
(* items (the description typed is "done"), so the quantity and price      *)
(* prompts are never reached.                                              *)

InitRace ==
    /\ \E f \in {NoFile, FileOf(JsonDump(StoredConfig(Acme, <<"A">>, 7)))} :
          disk = [config |-> f, pdfs |-> {}]
    /\ ghost = [disk0 |-> disk, writer |-> 0, lowered |-> FALSE, typed |-> "few"]
    /\ \E a \in {NoArgs, [NoArgs EXCEPT !.company_name = PyStr(Override)]} :
          argv = [p \in Procs |-> IF p = 2 THEN a ELSE NoArgs]
    /\ pc = [p \in Procs |-> "start"]
    /\ self = [p \in Procs |-> NoObject]
    /\ loc = [p \in Procs |-> NoLocals]
    /\ hist = [p \in Procs |-> NoHistory]
    /\ rt = NoProbe

NextRace ==
    \E p \in Procs :
        \/ Main(p)
        \/ InputInvoiceNumber(p)
        \/ InputCustomerName(p)
        \/ InputCustomerAddress(p)
        \/ InputInvoiceDate(p)
        \/ InputDescription(p)
        \/ InputConfirm(p)
        \/ InputAnother(p)

SpecRace == InitRace /\ [][NextRace]_vars

----------------------------------------------------------------------------
(* Properties.                                                             *)

PdfNames(d) == {f.name : f \in d.pdfs}

\* The line, trimmed and lower-cased, is "yes".
TypedYes(text) == Lower(Strip(text)) = <<"y", "e", "s">>

RECURSIVE DecimalValue(_)
DecimalValue(s) ==
    IF Len(s) = 0 THEN 0
    ELSE 10 * DecimalValue(SubSeq(s, 1, Len(s) - 1)) + DigitVal(s[Len(s)])

\* The text without surrounding whitespace and without one leading sign.
Unsigned(text) ==
    LET s == Strip(text)
    IN  IF Len(s) > 0 /\ s[1] \in {"+", "-"} THEN Tail(s) ELSE s

\* The text is a decimal integer.
IsIntegerText(text) ==
    LET b == Unsigned(text)
    IN  Len(b) > 0 /\ \A k \in 1..Len(b) : IsDigit(b[k])

\* The text is a decimal number: digits with at most one point.
IsDecimalText(text) ==
    LET b == Unsigned(text)
    IN  /\ \E k \in 1..Len(b) : IsDigit(b[k])
        /\ \A k \in 1..Len(b) : IsDigit(b[k]) \/ b[k] = "."
        /\ Cardinality({k \in 1..Len(b) : b[k] = "."}) <= 1

\* The text is one float() takes: a decimal number, or the word nan.
IsFloatText(text) ==
    IsDecimalText(text) \/ Lower(Unsigned(text)) = <<"n", "a", "n">>

FourFields(obj) ==
    <<[k |-> KeyCompanyName, v |-> obj.company_name],
      [k |-> KeyCompanyAddress, v |-> obj.company_address],
      [k |-> KeyInvoicePrefix, v |-> obj.invoice_prefix],
      [k |-> KeyLastInvoiceNumber, v |-> obj.last_invoice_number]>>

\* C1: in one run, every step leaves last_invoice_number, in memory and in
\* config.json (0 when absent), unchanged or exactly 1 larger; it grows by
\* 1 exactly in the steps that call get_next_invoice_number, after which
\* the file holds the in-memory value; it never decreases.
C1_CounterGrowsByOnePerCall ==
    [][LET called == hist'[1].calls - hist[1].calls
       IN  /\ called \in {0, 1}
           /\ \/ called = 0 /\ disk'.config = disk.config
              \/ Persisted(disk') = Persisted(disk) + called
           /\ pc[1] # "start" =>
                self'[1].last_invoice_number.i =
                    self[1].last_invoice_number.i + called
           /\ called = 1 =>
                Persisted(disk') = self'[1].last_invoice_number.i]_vars

C1_Witness ==
    /\ hist[1].calls = 2
    /\ Persisted(ghost.disk0) = 7
    /\ Persisted(disk) = 9
    /\ self[1].last_invoice_number = PyInt(9)

\* C2: when get_next_invoice_number has just been called, config.json
\* holds exactly the four fields company_name, company_address,
\* invoice_prefix with the values the session resolved, and
\* last_invoice_number with the in-memory counter, which is the loaded
\* counter plus the number of calls; a field that was in the file when it
\* was loaded is gone.
C2_SaveWritesTheFourFields ==
    (hist[1].last = "input_number" /\ hist[1].auto) =>
        LET r == load_config(disk)
        IN  /\ r.ok
            /\ r.dict = FourFields(self[1])
            /\ self[1].last_invoice_number =
                   PyInt(hist[1].start.i + hist[1].calls)
            /\ self[1].company_name =
                   Or(argv[1].company_name,
                      DictGet(self[1].config, KeyCompanyName,
                              PyStr(DefaultCompany)))
            /\ Notes \notin DictKeys(r.dict)

C2_Witness ==
    /\ hist[1].last = "input_number"
    /\ hist[1].auto
    /\ hist[1].calls = 1
    /\ Notes \in DictKeys(load_config(ghost.disk0).dict)
    /\ argv[1].company_name = PyStr(Override)
    /\ DictGet(load_config(disk).dict, KeyCompanyName, None) = PyStr(Override)

\* C3 as claimed: after an answer to the confirmation prompt that is not
\* "yes" once trimmed and lower-cased, no PDF file named
\* Invoice_{invoice_number}.pdf for the cycle's invoice number exists.
C3_NoPdfOfThatNumberAfterCancel ==
    (hist[1].last = "input_confirm" /\ ~TypedYes(hist[1].input)) =>
        pdf_filename(hist[1].number) \notin PdfNames(disk)

\* C3 as amended: the confirmation changes the PDF files only when the
\* answer, trimmed and lower-cased, is "yes"; after any other answer the
\* PDF files are those that were there before the answer (a file named for
\* the invoice number exists only if an earlier invoice left it), and in
\* either case config.json and the in-memory counter are as they were, so
\* an auto-generated number's increment stays persisted.
C3_CancelWritesNoPdf ==
    [][(pc[1] = "input_confirm" /\ pc'[1] # "input_confirm") =>
         /\ ~TypedYes(hist'[1].input) => disk'.pdfs = disk.pdfs
         /\ disk'.pdfs # disk.pdfs =>
              PdfNames(disk') = PdfNames(disk) \cup {pdf_filename(hist[1].number)}
         /\ disk'.config = disk.config
         /\ self' = self
         /\ hist[1].auto =>
              Persisted(disk') = hist[1].start.i + hist[1].calls]_vars

C3_Witness ==
    /\ hist[1].last = "input_confirm"
    /\ hist[1].input = <<>>
    /\ hist[1].auto
    /\ hist[1].calls = 1
    /\ Persisted(disk) = Persisted(ghost.disk0) + 1
    /\ pdf_filename(hist[1].number) \notin PdfNames(disk)

\* The value the claimed precedence gives a field: the override when one
\* is given, else the stored value when the field is stored, else the
\* default.
Precedence(override, config, key, default) ==
    IF override.t # "none" THEN override
    ELSE IF key \in DictKeys(config) THEN DictGet(config, key, default)
    ELSE default

\* C4: the constructor resolves company_name, company_address and
\* invoice_prefix with precedence explicit override > stored value >
\* default, for every override and every stored configuration, and the
\* counter is the stored last_invoice_number, or 0 when absent.
C4_OverrideStoredDefault ==
    pc[1] = "input_number" =>
        LET config == load_config(ghost.disk0).dict
        IN  /\ self[1].company_name =
                  Precedence(argv[1].company_name, config, KeyCompanyName,
                             PyStr(DefaultCompany))
            /\ self[1].company_address =
                  Precedence(argv[1].company_address, config,
                             KeyCompanyAddress, PyStr(DefaultAddress))
            /\ self[1].invoice_prefix =
                  Precedence(argv[1].invoice_prefix, config, KeyInvoicePrefix,
                             PyStr(DefaultPrefix))
            /\ self[1].last_invoice_number =
                  Precedence(None, config, KeyLastInvoiceNumber, PyInt(0))

\* C5: the k-th consecutive call of get_next_invoice_number on an object
\* whose counter started at c returns the prefix followed by c + k in
\* decimal, zero-padded to at least 4 digits and never cut: prefix "A"
\* gives "A0007" from 6 and "A12345" from 12344, and with no configuration
\* file the calls return "INV0001", then "INV0002".
C5_NumberIsPrefixAndPaddedCounter ==
    /\ \A k \in 1..Len(hist[1].returned) :
         LET ret == hist[1].returned[k]
             pre == FStr(self[1].invoice_prefix)
             suf == SubSeq(ret, Len(pre) + 1, Len(ret))
         IN  /\ Len(ret) >= Len(pre) + 4
             /\ SubSeq(ret, 1, Len(pre)) = pre
             /\ \A j \in 1..Len(suf) : IsDigit(suf[j])
             /\ DecimalValue(suf) = hist[1].start.i + k
             /\ Len(suf) > 4 => suf[1] # "0"
    /\ (Len(hist[1].returned) >= 1 /\ self[1].invoice_prefix = PyStr(<<"A">>)) =>
         /\ hist[1].start = PyInt(6) =>
              hist[1].returned[1] = <<"A", "0", "0", "0", "7">>
         /\ hist[1].start = PyInt(12344) =>
              hist[1].returned[1] = <<"A", "1", "2", "3", "4", "5">>
    /\ (Len(hist[1].returned) >= 1 /\ ~ghost.disk0.config.exists) =>
         hist[1].returned[1] = <<"I", "N", "V", "0", "0", "0", "1">>
    /\ (Len(hist[1].returned) >= 2 /\ ~ghost.disk0.config.exists) =>
         hist[1].returned[2] = <<"I", "N", "V", "0", "0", "0", "2">>

C5_Witness ==
    /\ hist[1].start = PyInt(9998)
    /\ Len(hist[1].returned) = 2
    /\ hist[1].returned[1] = <<"A", "9", "9", "9", "9">>
    /\ hist[1].returned[2] = <<"A", "1", "0", "0", "0", "0">>

\* C6: with two runs on one config.json, each run numbers its invoices
\* from the counter it loaded at its start, whatever the other run has
\* written since, and config.json holds the counter of the run that wrote
\* last.  So the state of C6_Witness is reached: both runs have generated
\* the same invoice number, the persisted counter is lower than the first
\* counter plus the numbers generated, and a write has lowered it.
C6_EachRunCountsFromItsOwnLoad ==
    /\ \A p \in Procs : \A k \in 1..Len(hist[p].returned) :
         hist[p].returned[k] =
             FStr(self[p].invoice_prefix)
                 \o Format04d(hist[p].start.i + k)
    /\ ghost.writer # 0 =>
         Persisted(disk) =
             hist[ghost.writer].start.i + hist[ghost.writer].calls

C6_Witness ==
    /\ hist[1].calls >= 1 /\ hist[2].calls >= 1
    /\ \E j \in 1..Len(hist[1].returned), k \in 1..Len(hist[2].returned) :
         hist[1].returned[j] = hist[2].returned[k]
    /\ Persisted(disk) < Persisted(ghost.disk0) + hist[1].calls + hist[2].calls
    /\ ghost.lowered

\* C7: save_config of a record of the four fields followed by load_config
\* returns a record with the same four fields, each with the value saved.
C7_SaveLoadRoundTrip ==
    rt.saved =>
        /\ rt.loaded.ok
        /\ DictKeys(rt.loaded.dict) = DictKeys(rt.config)
        /\ Len(rt.loaded.dict) = 4
        /\ \A k \in 1..4 :
             \E j \in 1..4 : /\ rt.loaded.dict[j].k = rt.config[k].k
                             /\ rt.loaded.dict[j].v = rt.config[k].v

C7_Witness ==
    /\ rt.saved
    /\ rt.config[1].v = PyStr(<<"\"", "\\">>)
    /\ rt.config[2].v = PyStr(<<"\\", "\"", "n">>)
    /\ rt.config[4].v = PyInt(-12)
    /\ rt.loaded.dict[1].v = PyStr(<<"\"", "\\">>)

\* C8 as claimed: a quantity or a price that is not a number (here: not a
\* decimal number) ends the run at that prompt.
C8_NonNumericIsFatal ==
    (hist[1].last \in {"input_qty", "input_price"}
        /\ ~IsDecimalText(hist[1].input)) => pc[1] = "crashed"

\* C8 as amended: a quantity that is not a decimal integer, or a price that
\* is neither a decimal number nor the word nan (which float() takes), ends
\* the run at that prompt: no retry, no further step, so no summary, no
\* confirmation, no continue prompt, and the disk stays as it was.
C8_RejectedNumberIsFatal ==
    [][/\ (pc[1] = "input_qty" /\ hist'[1].last = "input_qty"
              /\ ~IsIntegerText(hist'[1].input)) =>
             (pc'[1] = "crashed" /\ disk' = disk
                 /\ hist'[1].summaries = hist[1].summaries)
       /\ (pc[1] = "input_price" /\ hist'[1].last = "input_price"
              /\ ~IsFloatText(hist'[1].input)) =>
             (pc'[1] = "crashed" /\ disk' = disk
                 /\ hist'[1].summaries = hist[1].summaries)
       /\ pc[1] = "crashed" => (pc'[1] = "crashed" /\ disk' = disk)]_vars

C8_Witness ==
    /\ pc[1] = "crashed"
    /\ hist[1].last = "input_price"
    /\ hist[1].input = <<"x">>
    /\ hist[1].cycles = 2
    /\ hist[1].summaries = 1

\* C9: every invoice cycle that returns, confirmed or cancelled, is
\* followed by the "generate another?" prompt; from it a new cycle starts
\* exactly when the answer, trimmed and lower-cased, is "yes", any other
\* answer ends the program, and the program ends normally only there.
C9_LoopEndsOnlyAtThePrompt ==
    [][/\ (pc[1] = "input_confirm" /\ pc'[1] # "input_confirm") =>
             pc'[1] = "input_another"
       /\ (pc[1] = "input_another" /\ pc'[1] # "input_another") =>
             /\ pc'[1] = "input_number" <=> TypedYes(hist'[1].input)
             /\ pc'[1] = "exited" <=> ~TypedYes(hist'[1].input)
             /\ hist'[1].cycles =
                    hist[1].cycles + IF TypedYes(hist'[1].input) THEN 1 ELSE 0
       /\ (pc'[1] = "exited" /\ pc[1] # "exited") => pc[1] = "input_another"
       /\ (pc'[1] = "input_another" /\ pc[1] # "input_another") =>
             pc[1] = "input_confirm"]_vars

C9_Witness ==
    /\ pc[1] = "exited"
    /\ hist[1].cycles = 2
    /\ hist[1].input = <<"y">>
    /\ disk.pdfs = {}

\* C10: config.json and the in-memory counter change only in the steps
\* that call get_next_invoice_number; the constructor, a cycle with a
\* typed invoice number, the confirmation, the cancellation and create_pdf
\* leave both as they are, so while no number has been auto-generated the
\* file is the one the run found, whatever the command line overrides.
C10_OnlyGetNextWritesTheConfig ==
    /\ [](hist[1].calls = 0 => disk.config = ghost.disk0.config)
    /\ [][hist'[1].calls = hist[1].calls =>
            /\ disk'.config = disk.config
            /\ pc[1] # "start" =>
                 self'[1].last_invoice_number = self[1].last_invoice_number]_vars

C10_Witness ==
    /\ pc[1] = "exited"
    /\ argv[1].company_name = PyStr(Override)
    /\ hist[1].calls = 0
    /\ hist[1].cycles = 2
    /\ \E f \in disk.pdfs : f.company_name = Override
    /\ disk.config = ghost.disk0.config
    /\ ghost.disk0.config.exists

=============================================================================
